---- MODULE Spec2Model ----
(***************************************************************************)
(* Model of neb-screen-keys/ocr_extract.py: one run of the script, from    *)
(* the module-level import guard to process exit.  Every external call     *)
(* (import, Path.exists, print to stderr, model load, image open,          *)
(* inference, json.dumps) is a step whose outcome is a return or a raised  *)
(* Exception; the values the model may return are Python values with their *)
(* str(), repr() and JSON renderings.                                      *)
(***************************************************************************)
EXTENDS Integers, Sequences, FiniteSets, TLC

(***************************************************************************)
(* Bounds                                                                  *)
(***************************************************************************)
\* largest number of positional arguments after the script name
MaxArgs == 2

\* argument strings
Paths == {"img.png", "/tmp/does-not-exist.png"}

\* messages carried by exceptions raised inside the external calls
ExcMsgs == {"out of memory", "load failed"}

\* strings and integers the OCR model may hand back
ResultStrs == {"HELLO", "WORLD"}
ResultInts == {42, -7}

(***************************************************************************)
(* Python values                                                           *)
(***************************************************************************)
PyString(s) == [t |-> "str", s |-> s, n |-> 0]
PyInt(n) == [t |-> "int", s |-> "", n |-> n]
PyNone == [t |-> "NoneType", s |-> "", n |-> 0]
PyBytes(s) == [t |-> "bytes", s |-> s, n |-> 0]
Unset == [t |-> "unset", s |-> "", n |-> 0]

Values ==
    {PyString(s) : s \in ResultStrs} \cup {PyInt(n) : n \in ResultInts}
        \cup {PyNone, PyBytes("x")}

\* a model result: a bare value, or a dict with the single key "text"
\* (hasText) or the single key "label"
Value(v) == [kind |-> "value", hasText |-> FALSE, v |-> v]
Dict(hasText, v) == [kind |-> "dict", hasText |-> hasText, v |-> v]
NoResult == [kind |-> "unset", hasText |-> FALSE, v |-> Unset]

Results ==
    {Value(v) : v \in Values} \cup {Dict(h, v) : h \in BOOLEAN, v \in Values}

\* str(v) of a non-dict value
PyStr(v) ==
    CASE v.t = "str" -> v.s
      [] v.t = "int" -> ToString(v.n)
      [] v.t = "NoneType" -> "None"
      [] v.t = "bytes" -> "b'" \o v.s \o "'"

\* repr(v), as used for the items of a dict by str(dict)
PyRepr(v) == IF v.t = "str" THEN "'" \o v.s \o "'" ELSE PyStr(v)

DictKey(r) == IF r.hasText THEN "text" ELSE "label"

\* str(result)
StrOfResult(r) ==
    IF r.kind = "dict"
    THEN "{'" \o DictKey(r) \o "': " \o PyRepr(r.v) \o "}"
    ELSE PyStr(r.v)

\* isinstance(result, dict) / isinstance(result, str)
IsDict(r) == r.kind = "dict"
IsStr(r) == r.kind = "value" /\ r.v.t = "str"

\* result.get("text", default)
DictGetText(r, default) == IF r.hasText THEN r.v ELSE default

\* lines 41-46: the value bound to `text`
NormalizeStrAlways(r) == PyString(StrOfResult(r))
Normalize(r) ==
    IF IsDict(r) THEN DictGetText(r, PyString(StrOfResult(r)))
    ELSE IF IsStr(r) THEN r.v
    ELSE PyString(StrOfResult(r))

(***************************************************************************)
(* JSON objects and json.dumps                                             *)
(***************************************************************************)
JsonObject(key, v) == [key |-> key, val |-> v]

\* json.dumps raises TypeError on a value it cannot serialise
Serializable(v) == v.t \in {"str", "int", "NoneType"}
NotSerializableMsg(v) == "Object of type " \o v.t \o " is not JSON serializable"

JsonDumpsValue(v) ==
    CASE v.t = "str" -> "\"" \o v.s \o "\""
      [] v.t = "int" -> ToString(v.n)
      [] v.t = "NoneType" -> "null"

\* the line print(json.dumps({key: val})) writes
JsonDumps(o) == "{\"" \o o.key \o "\": " \o JsonDumpsValue(o.val) \o "}"

MissingDependenciesError(lib) ==
    JsonObject("error", PyString("Missing dependencies: No module named '" \o lib
        \o "'. Install with: pip install transformers pillow torch"))

UsageErrorWrongText ==
    JsonObject("error", PyString("Usage: python3 ocr_extract.py"))
UsageError ==
    JsonObject("error", PyString("Usage: python3 ocr_extract.py <image_path>"))

FileNotFoundErrorObject(path) ==
    JsonObject("error", PyString("Image file not found: " \o path))

ProcessingErrorNoDetails(msg) ==
    JsonObject("error", PyString("OCR processing failed"))
ProcessingError(msg) ==
    JsonObject("error", PyString("OCR processing failed: " \o msg))

StatusLoading == JsonObject("status", PyString("Loading DeepSeek-OCR model..."))
StatusProcessing == JsonObject("status", PyString("Processing image..."))

(***************************************************************************)
(* State                                                                   *)
(***************************************************************************)
VARIABLES
    argv,        \* sys.argv: the script name followed by the arguments
    missing,     \* the library whose import fails, "" when both import
    stat,        \* what stat() of argv[1] yields: "ok" or an errno name
    pc,          \* the statement the run is at
    stdout,      \* JSON objects printed to standard output, in order
    stderr,      \* JSON objects printed to standard error, in order
    exitCode,    \* exit status, -1 while the process runs
    image_path,  \* local of main
    model,       \* "unloaded" or "loaded"
    image,       \* "none" or "opened"
    result,      \* what model(image) returned
    text,        \* local of main
    exc,         \* the exception raised in the run, if any
    traceback,   \* TRUE when an exception left main uncaught
    events       \* the steps executed so far, in order

vars == <<argv, missing, stat, pc, stdout, stderr, exitCode, image_path,
          model, image, result, text, exc, traceback, events>>

NoExc == [at |-> "none", msg |-> ""]
Raised(at, msg) == [at |-> at, msg |-> msg]

ArgLists == UNION {[1..k -> Paths] : k \in 0..MaxArgs}
StatResults == {"ok", "ENOENT", "ENAMETOOLONG"}

\* errno values pathlib's exists() turns into False (pathlib._ignore_error)
IgnoredErrnos == {"ENOENT"}

Init ==
    /\ argv \in {<<"ocr_extract.py">> \o a : a \in ArgLists}
    /\ missing \in {"", "transformers", "PIL"}
    /\ stat \in StatResults
    /\ pc = "import"
    /\ stdout = <<>>
    /\ stderr = <<>>
    /\ exitCode = -1
    /\ image_path = ""
    /\ model = "unloaded"
    /\ image = "none"
    /\ result = NoResult
    /\ text = Unset
    /\ exc = NoExc
    /\ traceback = FALSE
    /\ events = <<>>

\* print(json.dumps(o)); sys.exit(1)
WriteAndExit1(o) ==
    /\ stdout' = Append(stdout, o)
    /\ exitCode' = 1
    /\ pc' = "done"

\* an exception raised inside the try block: control moves to the handler
Raise(at, msg) ==
    /\ exc' = Raised(at, msg)
    /\ pc' = "except"

(***************************************************************************)
(* Lines 11-16 and 56-57: the import guard, then the __main__ entry        *)
(***************************************************************************)
ImportGuardDeferred ==
    /\ pc = "import"
    /\ events' = Append(events, "import")
    /\ pc' = "argcheck"
    /\ UNCHANGED <<argv, missing, stat, stdout, stderr, exitCode, image_path,
                   model, image, result, text, exc, traceback>>

ImportGuard ==
    /\ pc = "import"
    /\ events' = Append(events, "import")
    /\ IF missing = ""
       THEN /\ pc' = "argcheck"
            /\ UNCHANGED <<stdout, exitCode>>
       ELSE WriteAndExit1(MissingDependenciesError(missing))
    /\ UNCHANGED <<argv, missing, stat, stderr, image_path, model, image,
                   result, text, exc, traceback>>

(***************************************************************************)
(* Lines 19-23: argument check                                             *)
(***************************************************************************)
ArgCheckWrongIndex ==
    /\ pc = "argcheck"
    /\ events' = Append(events, "argcheck")
    /\ IF Len(argv) < 2
       THEN /\ WriteAndExit1(UsageError)
            /\ UNCHANGED image_path
       ELSE /\ image_path' = argv[1]
            /\ pc' = "exists"
            /\ UNCHANGED <<stdout, exitCode>>
    /\ UNCHANGED <<argv, missing, stat, stderr, model, image, result, text,
                   exc, traceback>>

ArgCheck ==
    /\ pc = "argcheck"
    /\ events' = Append(events, "argcheck")
    /\ IF Len(argv) < 2
       THEN /\ WriteAndExit1(UsageError)
            /\ UNCHANGED image_path
       ELSE /\ image_path' = argv[2]
            /\ pc' = "exists"
            /\ UNCHANGED <<stdout, exitCode>>
    /\ UNCHANGED <<argv, missing, stat, stderr, model, image, result, text,
                   exc, traceback>>

(***************************************************************************)
(* Lines 25-27: Path(image_path).exists().  stat() succeeding gives True,  *)
(* an ignored errno gives False; any other errno is re-raised by pathlib   *)
(* up to Python 3.12 and gives False from 3.13 on.  The call is outside    *)
(* the try block, so the OSError leaves main uncaught.                     *)
(***************************************************************************)
ExistsCheck ==
    /\ pc = "exists"
    /\ events' = Append(events, "exists")
    /\ \/ /\ stat = "ok"
          /\ pc' = "status_load"
          /\ UNCHANGED <<stdout, exitCode, exc, traceback>>
       \/ /\ stat # "ok"
          /\ WriteAndExit1(FileNotFoundErrorObject(image_path))
          /\ UNCHANGED <<exc, traceback>>
       \/ /\ stat # "ok"
          /\ stat \notin IgnoredErrnos
          /\ exc' = Raised("exists", stat)
          /\ traceback' = TRUE
          /\ exitCode' = 1
          /\ pc' = "done"
          /\ UNCHANGED stdout
    /\ UNCHANGED <<argv, missing, stat, stderr, image_path, model, image,
                   result, text>>

(***************************************************************************)
(* Lines 29-50: the try block, one step per statement.  A print to stderr, *)
(* the model load, the image open and the inference each return or raise.  *)
(***************************************************************************)
StatusLoadToStdout ==
    /\ pc = "status_load"
    /\ events' = Append(events, "status_load")
    /\ \/ /\ stdout' = Append(stdout, StatusLoading)
          /\ pc' = "model_load"
          /\ UNCHANGED exc
       \/ /\ \E m \in ExcMsgs : Raise("status_load", m)
          /\ UNCHANGED stdout
    /\ UNCHANGED <<argv, missing, stat, stderr, exitCode, image_path, model,
                   image, result, text, traceback>>

\* line 31
StatusLoad ==
    /\ pc = "status_load"
    /\ events' = Append(events, "status_load")
    /\ \/ /\ stderr' = Append(stderr, StatusLoading)
          /\ pc' = "model_load"
          /\ UNCHANGED exc
       \/ /\ \E m \in ExcMsgs : Raise("status_load", m)
          /\ UNCHANGED stderr
    /\ UNCHANGED <<argv, missing, stat, stdout, exitCode, image_path, model,
                   image, result, text, traceback>>

\* line 32
ModelLoad ==
    /\ pc = "model_load"
    /\ events' = Append(events, "model_load")
    /\ \/ /\ model' = "loaded"
          /\ pc' = "status_proc"
          /\ UNCHANGED exc
       \/ /\ \E m \in ExcMsgs : Raise("model_load", m)
          /\ UNCHANGED model
    /\ UNCHANGED <<argv, missing, stat, stdout, stderr, exitCode, image_path,
                   image, result, text, traceback>>

\* line 35
StatusProcess ==
    /\ pc = "status_proc"
    /\ events' = Append(events, "status_proc")
    /\ \/ /\ stderr' = Append(stderr, StatusProcessing)
          /\ pc' = "image_open"
          /\ UNCHANGED exc
       \/ /\ \E m \in ExcMsgs : Raise("status_proc", m)
          /\ UNCHANGED stderr
    /\ UNCHANGED <<argv, missing, stat, stdout, exitCode, image_path, model,
                   image, result, text, traceback>>

\* line 36
ImageOpen ==
    /\ pc = "image_open"
    /\ events' = Append(events, "image_open")
    /\ \/ /\ image' = "opened"
          /\ pc' = "inference"
          /\ UNCHANGED exc
       \/ /\ \E m \in ExcMsgs : Raise("image_open", m)
          /\ UNCHANGED image
    /\ UNCHANGED <<argv, missing, stat, stdout, stderr, exitCode, image_path,
                   model, result, text, traceback>>

\* line 37
Inference ==
    /\ pc = "inference"
    /\ events' = Append(events, "inference")
    /\ \/ /\ \E r \in Results : result' = r
          /\ pc' = "normalize"
          /\ UNCHANGED exc
       \/ /\ \E m \in ExcMsgs : Raise("inference", m)
          /\ UNCHANGED result
    /\ UNCHANGED <<argv, missing, stat, stdout, stderr, exitCode, image_path,
                   model, image, text, traceback>>

\* lines 41-46
NormalizeResult ==
    /\ pc = "normalize"
    /\ events' = Append(events, "normalize")
    /\ text' = Normalize(result)
    /\ pc' = "emit"
    /\ UNCHANGED <<argv, missing, stat, stdout, stderr, exitCode, image_path,
                   model, image, result, exc, traceback>>

\* lines 49-50, then main returns and the process exits with status 0;
\* json.dumps raises TypeError before anything is written
EmitText ==
    /\ pc = "emit"
    /\ events' = Append(events, "emit")
    /\ IF Serializable(text)
       THEN /\ stdout' = Append(stdout, JsonObject("text", text))
            /\ exitCode' = 0
            /\ pc' = "done"
            /\ UNCHANGED exc
       ELSE /\ Raise("emit", NotSerializableMsg(text))
            /\ UNCHANGED <<stdout, exitCode>>
    /\ UNCHANGED <<argv, missing, stat, stderr, image_path, model, image,
                   result, text, traceback>>

(***************************************************************************)
(* Lines 52-54: except Exception                                           *)
(***************************************************************************)
HandleExceptionRetry ==
    /\ pc = "except"
    /\ IF Cardinality({i \in DOMAIN events : events[i] = "model_load"}) < 2
       THEN /\ pc' = "model_load"
            /\ events' = Append(events, "except")
            /\ UNCHANGED <<stdout, exitCode>>
       ELSE /\ WriteAndExit1(ProcessingError(exc.msg))
            /\ events' = Append(events, "except")
    /\ UNCHANGED <<argv, missing, stat, stderr, image_path, model, image,
                   result, text, exc, traceback>>

HandleException ==
    /\ pc = "except"
    /\ events' = Append(events, "except")
    /\ WriteAndExit1(ProcessingError(exc.msg))
    /\ UNCHANGED <<argv, missing, stat, stderr, image_path, model, image,
                   result, text, exc, traceback>>

Next ==
    \/ ImportGuard
    \/ ArgCheck
    \/ ExistsCheck
    \/ StatusLoad
    \/ ModelLoad
    \/ StatusProcess
    \/ ImageOpen
    \/ Inference
    \/ NormalizeResult
    \/ EmitText
    \/ HandleException

Spec == Init /\ [][Next]_vars

\* every statement of the script returns or raises, so a run that can take
\* a step takes one
FairSpec == Spec /\ WF_vars(Next)

Terminated == pc = "done"

(***************************************************************************)
(* Properties                                                              *)
(***************************************************************************)
Has(e) == \E i \in DOMAIN events : events[i] = e
Count(e) == Cardinality({i \in DOMAIN events : events[i] = e})
IsPrefix(p, q) == Len(p) <= Len(q) /\ \A i \in DOMAIN p : p[i] = q[i]

\* the statements inside the try block, steps 4a-4f
TrySteps ==
    {"status_load", "model_load", "status_proc", "image_open", "inference",
     "normalize", "emit"}

\* C1: when the process has terminated, exactly one JSON object has been
\* written to standard output, whatever the arguments and call outcomes.
C1_ExactlyOneObject == Terminated => Len(stdout) = 1

\* C2: in every terminated run the standard-output object carries exactly
\* one of the keys text and error, and the exit status is 0 iff it is text.
C2_KeyMatchesExit ==
    Terminated =>
        /\ Len(stdout) = 1
        /\ stdout[1].key \in {"text", "error"}
        /\ (exitCode = 0 <=> stdout[1].key = "text")

\* C3 as stated: with no positional argument the output is the usage error
\* and the exit status non-zero regardless of every other condition,
\* unimportable libraries included.
C3_UsageRegardless ==
    (Terminated /\ Len(argv) < 2) =>
        /\ Len(stdout) = 1
        /\ JsonDumps(stdout[1])
             = "{\"error\": \"Usage: python3 ocr_extract.py <image_path>\"}"
        /\ exitCode # 0

\* C3 amended: with no positional argument and the libraries importable,
\* the output is the usage error and the exit status non-zero whatever
\* stat() of the path would yield; the argument check runs after the import
\* guard and before any file-existence check.
C3_UsageWhenImportable ==
    /\ (Len(argv) < 2 /\ missing = "") => ~Has("exists")
    /\ Has("argcheck") => (missing = "" /\ events[1] = "import")
    /\ (Terminated /\ Len(argv) < 2 /\ missing = "") =>
          /\ Len(stdout) = 1
          /\ JsonDumps(stdout[1])
               = "{\"error\": \"Usage: python3 ocr_extract.py <image_path>\"}"
          /\ exitCode # 0
          /\ events = <<"import", "argcheck">>

C3_Witness ==
    Terminated /\ Len(argv) < 2 /\ missing = "" /\ stat = "ENAMETOOLONG"

\* C4: when a required library cannot be imported the run writes the
\* Missing dependencies error, exits non-zero for every argument list, and
\* reaches neither argument parsing nor any later step.
C4_DependencyGateFirst ==
    missing # "" =>
        /\ pc \in {"import", "done"}
        /\ IsPrefix(events, <<"import">>)
        /\ stderr = <<>> /\ model = "unloaded" /\ image = "none"
        /\ Terminated =>
              /\ Len(stdout) = 1
              /\ JsonDumps(stdout[1])
                   = "{\"error\": \"Missing dependencies: No module named '"
                       \o missing
                       \o "'. Install with: pip install transformers pillow torch\"}"
              /\ exitCode # 0

C4_Witness == Terminated /\ missing = "PIL" /\ Len(argv) >= 2

C6_ProcessingFailure ==
    (Terminated /\ exc.at \in TrySteps) =>
        /\ Len(stdout) = 1
        /\ JsonDumps(stdout[1])
             = "{\"error\": \"OCR processing failed: " \o exc.msg \o "\"}"
        /\ exitCode # 0

C6_Witness ==
    /\ Terminated /\ exc.at = "emit"
    /\ exc.msg = "Object of type bytes is not JSON serializable"

\* C7: on the success path the value under text is the text field of a
\* mapping that has one, the string form of a mapping that has none, the
\* result itself when it is a string, and the string form otherwise; the
\* normalization step never raises.
C7_Precedence ==
    /\ exc.at # "normalize"
    /\ exitCode = 0 =>
          /\ Len(stdout) = 1 /\ stdout[1].key = "text"
          /\ (result.kind = "dict" /\ result.hasText) =>
                stdout[1].val = result.v
          /\ (result.kind = "dict" /\ ~result.hasText) =>
                stdout[1].val = PyString(StrOfResult(result))
          /\ (result.kind = "value" /\ result.v.t = "str") =>
                stdout[1].val = result.v
          /\ (result.kind = "value" /\ result.v.t # "str") =>
                stdout[1].val = PyString(PyStr(result.v))
          /\ result = Dict(TRUE, PyString("HELLO")) =>
                JsonDumps(stdout[1]) = "{\"text\": \"HELLO\"}"
          /\ result = Value(PyString("WORLD")) =>
                JsonDumps(stdout[1]) = "{\"text\": \"WORLD\"}"
          /\ result = Value(PyInt(42)) =>
                JsonDumps(stdout[1]) = "{\"text\": \"42\"}"
          /\ result = Dict(FALSE, PyInt(42)) =>
                JsonDumps(stdout[1]) = "{\"text\": \"{'label': 42}\"}"

C7_Witness == exitCode = 0 /\ result = Dict(FALSE, PyInt(42))

\* C8: in every run that exits with status 0 the value under the text key
\* is a string, also when the mapping's text field holds a non-string.
C8_TextIsString ==
    exitCode = 0 => (Len(stdout) = 1 /\ stdout[1].val.t = "str")

\* C9: status objects go to the diagnostic stream only; a run that passes
\* validation emits the Loading status, loads the model, emits the
\* Processing status, opens the image, runs inference and then writes the
\* single result object; the image is opened only after a successful load,
\* a run whose load fails has emitted exactly one status message, and no
\* status message follows the standard-output object.
TryEvents == SelectSeq(events, LAMBDA e : e \in TrySteps)

C9_StatusAndOrder ==
    /\ \A i \in DOMAIN stdout : stdout[i].key # "status"
    /\ \A i \in DOMAIN stderr : stderr[i].key = "status"
    /\ IsPrefix(stderr, <<StatusLoading, StatusProcessing>>)
    /\ IsPrefix(TryEvents,
                <<"status_load", "model_load", "status_proc", "image_open",
                  "inference", "normalize", "emit">>)
    /\ Has("model_load") => Len(stderr) >= 1
    /\ Has("status_proc") => model = "loaded"
    /\ Has("image_open") => (model = "loaded" /\ Len(stderr) = 2)
    /\ Has("inference") => image = "opened"
    /\ exc.at = "model_load" => Len(stderr) = 1
    /\ stdout # <<>> => Terminated
    /\ (Terminated /\ Has("status_load")) => Len(stdout) = 1

C9_Witness == Terminated /\ exc.at = "model_load" /\ Len(stderr) = 1

\* C10: the model is loaded at most once and inference invoked at most once,
\* no step is repeated or re-entered after a failure, a failure leads
\* directly to termination, and every run eventually terminates.
NoStepRepeated == \A i, j \in DOMAIN events : events[i] = events[j] => i = j

C10_LinearAndTerminates ==
    /\ [](Count("model_load") <= 1 /\ Count("inference") <= 1 /\ NoStepRepeated)
    /\ [][pc = "except" => pc' = "done"]_vars
    /\ [][exc' # exc => pc' \in {"except", "done"}]_vars
    /\ <>Terminated

C10_Witness ==
    /\ Terminated /\ exc.at = "inference"
    /\ Count("model_load") = 1 /\ Count("inference") = 1

====
